---- MODULE Spec2Model ----
(***************************************************************************)
(* Model of kyco/utils.py: the ListenTo decorator, the construction of a   *)
(* KycoNApp (listener registry and buffer bindings), the run unit of the   *)
(* App (setup, then execute) and the threads started by decorated          *)
(* handlers.  The controller's delivery of an event to an App is not part  *)
(* of utils.py; it is modelled from the specification (registry lookup,    *)
(* then a call of every handler found).                                    *)
(***************************************************************************)
EXTENDS Naturals, Sequences, FiniteSets, Bags, TLC

VARIABLES cls, apps, run, threads, host, delivered, directCalls

vars == <<cls, apps, run, threads, host, delivered, directCalls>>

(* ------------------------------ bounds --------------------------------- *)

\* Total number of event names the author declares over all members.
MaxDeclared == 2
\* Number of events the host hands over, by delivery or by a direct call of
\* a decorated handler.
MaxDeliveries == 2
\* Number of handler invocations started in all.
MaxThreads == 2

(* ---------------------------- vocabulary ------------------------------- *)

ShutdownEvent == "KycoShutdownEvent"

\* The names of the events the host delivers.
EventNames == {"A", "B", ShutdownEvent}

\* The names an author declares handlers for; no handler listens to "B".
DeclaredNames == {"A", ShutdownEvent}

\* The two App objects the host may construct from the one App type.
Instances == {"app1", "app2"}

\* The App object the host starts and delivers events to; the other one is
\* only constructed.
Driven == {"app1"}

\* Members an author may give an 'events' attribute.  h1 and h2 are methods;
\* data is a plain (non callable) attribute.
UserMembers == {"h1", "h2", "data"}

\* dir(self) lists names in sorted order ('_' sorts before the letters); the
\* members of Thread carry no 'events' attribute and are left out.
DirOrder ==
    <<"_shutdown_handler", "data", "execute", "h1", "h2", "setup", "shutdown">>

AllMembers == {DirOrder[n] : n \in 1..Len(DirOrder)}

IsCallable(m) == m # "data"

\* method_name[0] != '_'
IsPublic(m) == m # "_shutdown_handler"

\* The abstract methods with the @abstractmethod of shutdown left out.
AbstractMethodsNoShutdown == {"setup", "execute"}

\* The methods KycoNApp declares with @abstractmethod.
AbstractMethods == {"setup", "execute", "shutdown"}

\* The three keys with the first two checks exchanged.
RequiredKeysSwapped ==
    <<"add_to_msg_out_buffer", "add_to_msg_in_buffer", "add_to_app_buffer">>

\* The three keyword arguments __init__ requires, in the order it checks them.
RequiredKeys == <<"add_to_msg_in_buffer", "add_to_msg_out_buffer", "add_to_app_buffer">>

KeySet == {RequiredKeys[n] : n \in 1..Len(RequiredKeys)}

\* The sink the host supplies under key k (one distinct callable per key).
SinkOf(k) == <<"sink", k>>

Range(s) == {s[n] : n \in 1..Len(s)}

RECURSIVE SeqsUpTo(_, _)
SeqsUpTo(S, n) ==
    IF n = 0 THEN {<<>>}
    ELSE LET shorter == SeqsUpTo(S, n - 1)
         IN  shorter \cup {Append(s, x) : s \in shorter, x \in S}

RECURSIVE SumLen(_, _)
SumLen(f, S) ==
    IF S = {} THEN 0
    ELSE LET m == CHOOSE x \in S : TRUE
         IN  Len(f[m]) + SumLen(f, S \ {m})

(* ------------------------------ ListenTo ------------------------------- *)

\* ListenTo.__init__: self.events = [event]; self.events.extend(events)
ListenToInit(event, events) == <<event>> \o events

\* The 'events' attribute of every member of KycoNApp itself: only
\* _shutdown_handler is decorated.  The empty sequence stands for "no
\* 'events' attribute" (ListenTo never produces an empty list).
BaseEvents ==
    [m \in AllMembers |->
        IF m = "_shutdown_handler" THEN ListenToInit(ShutdownEvent, <<>>) ELSE <<>>]

HasEvents(m) == cls.events[m] # <<>>

\* wrapped_handler run by the unit `caller`: the handler body runs in the caller.
wrapped_handler_sync(caller, i, h, ev, via) ==
    [thread |-> [app |-> i, handler |-> h, event |-> ev, via |-> via,
                 unit |-> caller, status |-> "running"],
     ret |-> "None"]

\* wrapped_handler behind a lock per handler: an invocation started while
\* another one of the same handler of the same App runs has to wait.
wrapped_handler_locked(caller, i, h, ev, via) ==
    [thread |-> [app |-> i, handler |-> h, event |-> ev, via |-> via,
                 unit |-> "thread",
                 status |-> IF \E t \in BagToSet(threads) :
                                  t.app = i /\ t.handler = h /\ t.status = "running"
                            THEN "waiting" ELSE "running"],
     ret |-> "None"]

\* ListenTo.__call__.wrapped_handler called by the unit `caller` with the
\* arguments (self = i, event = ev): Thread(target=handler, args=args).start()
\* creates a new unit that runs the handler; nothing is returned.
wrapped_handler(caller, i, h, ev, via) ==
    [thread |-> [app |-> i, handler |-> h, event |-> ev, via |-> via,
                 unit |-> "thread", status |-> "running"],
     ret |-> "None"]

(* --------------------------- KycoNApp.__init__ ------------------------- *)

\* ABCMeta: the abstract methods the type leaves without an override.
MissingOverrides == AbstractMethods \ cls.overrides

RECURSIVE SelectSeq2(_, _)
SelectSeq2(s, keep) ==
    IF s = <<>> THEN <<>>
    ELSE IF Head(s) \in keep THEN <<Head(s)>> \o SelectSeq2(Tail(s), keep)
         ELSE SelectSeq2(Tail(s), keep)

\* handler_methods without the test on the first character of the name.
handler_methods_all ==
    SelectSeq2(DirOrder, {m \in AllMembers : IsCallable(m) /\ HasEvents(m)})

\* handler_methods: the members of dir(self) whose name does not start with
\* '_', that are callable and that have an 'events' attribute.
handler_methods ==
    SelectSeq2(DirOrder, {m \in AllMembers : IsPublic(m) /\ IsCallable(m) /\ HasEvents(m)})

\* self._listeners as a dict shared by the instances of the type.
SharedListeners ==
    IF \E j \in Instances : apps[j].status # "none" /\ apps[j].error # "TypeError"
    THEN LET j == CHOOSE j \in Instances :
                    apps[j].status # "none" /\ apps[j].error # "TypeError"
         IN  apps[j].listeners
    ELSE [e \in {} |-> <<>>]

\* self._listeners = {}
NewListeners == [e \in {} |-> <<>>]

\* The inner loop body with a method listed at most once under a name.
AddListenerOnce(d, event_name, method) ==
    IF event_name \notin DOMAIN d
    THEN [e \in DOMAIN d \cup {event_name} |->
            IF e = event_name THEN <<method>> ELSE d[e]]
    ELSE IF method \in Range(d[event_name]) THEN d
         ELSE [d EXCEPT ![event_name] = Append(@, method)]

\* One pass of the inner loop: register `method` under event_name.
AddListener(d, event_name, method) ==
    IF event_name \notin DOMAIN d
    THEN [e \in DOMAIN d \cup {event_name} |->
            IF e = event_name THEN <<method>> ELSE d[e]]
    ELSE [d EXCEPT ![event_name] = Append(@, method)]

RECURSIVE AddEvents(_, _, _)
AddEvents(d, names, method) ==
    IF names = <<>> THEN d
    ELSE AddEvents(AddListener(d, Head(names), method), Tail(names), method)

RECURSIVE AddMethods(_, _)
AddMethods(d, methods) ==
    IF methods = <<>> THEN d
    ELSE AddMethods(AddEvents(d, cls.events[Head(methods)], Head(methods)), Tail(methods))

\* "Building the listeners dictionary"
BuildListeners == AddMethods(NewListeners, handler_methods)

\* The buffer checks with the last one left out.
RECURSIVE BindBuffersSkipLast(_, _, _)
BindBuffersSkipLast(kwargs, keys, sinks) ==
    IF keys = <<>> \/ Len(keys) = 1 THEN [error |-> "none", sinks |-> sinks]
    ELSE IF Head(keys) \notin DOMAIN kwargs
         THEN [error |-> Head(keys), sinks |-> sinks]
         ELSE BindBuffersSkipLast(kwargs, Tail(keys),
                [k \in DOMAIN sinks \cup {Head(keys)} |->
                    IF k = Head(keys) THEN kwargs[k] ELSE sinks[k]])

\* The three "if key not in kwargs: raise ...; self.key = kwargs[key]" blocks:
\* the key found missing (or "none") and the sinks bound so far.
RECURSIVE BindBuffers(_, _, _)
BindBuffers(kwargs, keys, sinks) ==
    IF keys = <<>> THEN [error |-> "none", sinks |-> sinks]
    ELSE IF Head(keys) \notin DOMAIN kwargs
         THEN [error |-> Head(keys), sinks |-> sinks]
         ELSE BindBuffers(kwargs, Tail(keys),
                [k \in DOMAIN sinks \cup {Head(keys)} |->
                    IF k = Head(keys) THEN kwargs[k] ELSE sinks[k]])

\* stop is the flag the shutdown override of a looping App sets and its
\* execute polls; it is the only field of the App the overrides touch.
NoApp ==
    [status |-> "none", error |-> "none", kwargs |-> [k \in {} |-> <<>>],
     listeners |-> [e \in {} |-> <<>>], sinks |-> [k \in {} |-> <<>>],
     stop |-> FALSE]

(* ------------------------------ KycoNApp.run --------------------------- *)

\* run with a call of shutdown at its end.
RunBodyWithShutdown == <<"setup", "execute", "shutdown">>

\* run that goes back to setup after execute.
RunBodyAgain == <<"setup", "execute", "setup">>

\* run with the two calls exchanged.
RunBodySwapped == <<"execute", "setup">>

\* run: self.setup() then self.execute()
RunBody == <<"setup", "execute">>

NotStarted == [st |-> "created", ip |-> 1, log |-> <<>>]

(* -------------------------------- state -------------------------------- *)

IdleHost ==
    [pc |-> "idle", app |-> "app1", event |-> "A", todo |-> <<>>,
     error |-> "none", ret |-> "unset"]

Init ==
    /\ cls = [events |-> BaseEvents, overrides |-> {}, loops |-> FALSE,
              defined |-> FALSE]
    /\ apps = [i \in Instances |-> NoApp]
    /\ run = [i \in Instances |-> NotStarted]
    /\ threads = EmptyBag
    /\ host = IdleHost
    /\ delivered = [i \in Instances |-> [e \in EventNames |-> 0]]
    /\ directCalls = 0

(* --------------------------- class definition -------------------------- *)

\* The author gives member m an 'events' attribute: @ListenTo(event, *rest)
\* on a method, or an attribute with that field on a plain member.
Declare(m, event, rest) ==
    /\ ~cls.defined
    /\ cls.events[m] = <<>>
    /\ m = "h2" => HasEvents("h1")
    /\ SumLen(cls.events, UserMembers) + 1 + Len(rest) <= MaxDeclared
    /\ cls' = [cls EXCEPT !.events[m] = ListenToInit(event, rest)]
    /\ UNCHANGED <<apps, run, threads, host, delivered, directCalls>>

\* The class statement ends; ov are the abstract methods the type overrides.
\* With lp its execute is a loop that ends when the stop flag is set, and its
\* shutdown sets that flag (the use the docstring of shutdown describes).
DefineType(ov, lp) ==
    /\ ~cls.defined
    /\ lp => ov = AbstractMethods
    /\ cls' = [cls EXCEPT !.overrides = ov, !.loops = lp, !.defined = TRUE]
    /\ UNCHANGED <<apps, run, threads, host, delivered, directCalls>>

(* ------------------------------ construction --------------------------- *)

\* KycoNApp(**kwargs) where kwargs holds the keys K.  ABCMeta refuses the
\* instantiation of a type with abstract methods left (TypeError, __init__
\* is never entered); otherwise __init__ builds the registry, then checks and
\* binds the three buffers and raises at the first one missing.
Construct(i, K) ==
    /\ cls.defined
    /\ apps[i].status = "none"
    /\ i = "app2" => apps["app1"].status # "none"
    /\ LET kwargs == [k \in K |-> SinkOf(k)]
       IN  IF MissingOverrides # {}
           THEN apps' = [apps EXCEPT ![i] =
                    [NoApp EXCEPT !.status = "failed", !.error = "TypeError",
                                  !.kwargs = kwargs]]
           ELSE LET d == BuildListeners
                    b == BindBuffers(kwargs, RequiredKeys, [k \in {} |-> <<>>])
                IN  apps' = [apps EXCEPT ![i] =
                        [status |-> IF b.error = "none" THEN "ok" ELSE "failed",
                         error |-> b.error, kwargs |-> kwargs,
                         listeners |-> d, sinks |-> b.sinks, stop |-> FALSE]]
    /\ UNCHANGED <<cls, run, threads, host, delivered, directCalls>>

(* -------------------------------- run unit ----------------------------- *)

\* Thread.start(): the run unit begins and calls the first method of run.
Start(i) ==
    /\ apps[i].status = "ok"
    /\ run[i].st = "created"
    /\ run' = [run EXCEPT ![i] =
            [st |-> "running", ip |-> 1, log |-> <<<<RunBody[1], "call">>>>]]
    /\ UNCHANGED <<cls, apps, threads, host, delivered, directCalls>>

\* The method the run unit of App i is in can return: setup always, execute
\* of a looping App once the stop flag is set.
CanReturn(i) ==
    (RunBody[run[i].ip] = "execute" /\ cls.loops) => apps[i].stop

\* run waits for the invocations of the App's handlers before it ends.
RunEndsAfterHandlers(i) ==
    \A t \in BagToSet(threads) : t.app = i => t.status # "running"

\* Nothing follows the last call of run: the run unit ends when it returns.
RunEnds(i) == TRUE

\* The method the run unit is in returns: run calls the next one, or ends.
RunReturn(i) ==
    /\ run[i].st = "running"
    /\ CanReturn(i)
    /\ run[i].ip = Len(RunBody) => RunEnds(i)
    /\ LET ip == run[i].ip
           done == Append(run[i].log, <<RunBody[ip], "return">>)
       IN  run' = [run EXCEPT ![i] =
                IF ip < Len(RunBody)
                THEN [st |-> "running", ip |-> ip + 1,
                      log |-> Append(done, <<RunBody[ip + 1], "call">>)]
                ELSE [st |-> "terminated", ip |-> ip, log |-> done]]
    /\ UNCHANGED <<cls, apps, threads, host, delivered, directCalls>>

\* The method the run unit is in raises: the exception ends the run unit.
RunRaise(i) ==
    /\ run[i].st = "running"
    /\ run' = [run EXCEPT ![i] =
            [st |-> "terminated", ip |-> run[i].ip,
             log |-> Append(run[i].log, <<RunBody[run[i].ip], "raise">>)]]
    /\ UNCHANGED <<cls, apps, threads, host, delivered, directCalls>>

(* ------------------------- delivery and handlers ----------------------- *)

\* The invocations started so far, each with the unit it runs in and how far
\* it got; invocations that agree in all of these are counted.
Started == BagCardinality(threads)

\* The host's unit is inside a handler body.
HostBusy ==
    \E t \in BagToSet(threads) : t.unit = "host" /\ t.status = "running"

RECURSIVE SumOver(_, _)
SumOver(f, S) ==
    IF S = {} THEN 0
    ELSE LET x == CHOOSE y \in S : TRUE
         IN  f[x] + SumOver(f, S \ {x})

TotalDelivered ==
    SumOver([p \in Instances \X EventNames |-> delivered[p[1]][p[2]]],
            Instances \X EventNames)

\* The handlers the registry of App i holds under e.
Lookup(i, e) ==
    IF e \in DOMAIN apps[i].listeners THEN apps[i].listeners[e] ELSE <<>>

\* The host delivers event e to App i: the handlers found under e in the
\* registry are to be called; none found is a no-op.
Deliver(i, e) ==
    /\ host.pc = "idle"
    /\ ~HostBusy
    /\ apps[i].status = "ok"
    /\ TotalDelivered + directCalls < MaxDeliveries
    /\ Started + Len(Lookup(i, e)) <= MaxThreads
    /\ delivered' = [delivered EXCEPT ![i][e] = @ + 1]
    /\ host' = IF Lookup(i, e) = <<>> THEN host
               ELSE [host EXCEPT !.pc = "dispatching", !.app = i,
                                 !.event = e, !.todo = Lookup(i, e)]
    /\ UNCHANGED <<cls, apps, run, threads, directCalls>>

\* The dispatch in progress calls the next handler found.
DispatchStep ==
    /\ host.pc = "dispatching"
    /\ ~HostBusy
    /\ LET w == wrapped_handler("host", host.app, Head(host.todo), host.event, "dispatch")
           rest == Tail(host.todo)
       IN  /\ threads' = threads (+) SetToBag({w.thread})
           /\ host' = [host EXCEPT !.todo = rest, !.ret = w.ret,
                                   !.pc = IF rest = <<>> THEN "idle" ELSE "dispatching"]
    /\ UNCHANGED <<cls, apps, run, delivered, directCalls>>

\* The host calls the decorated method m of App i itself, passing an event
\* of the first name m declares.
DirectCall(i, m) ==
    /\ host.pc = "idle"
    /\ ~HostBusy
    /\ apps[i].status = "ok"
    /\ IsCallable(m) /\ HasEvents(m)
    /\ TotalDelivered + directCalls < MaxDeliveries
    /\ Started < MaxThreads
    /\ directCalls' = directCalls + 1
    /\ LET w == wrapped_handler("host", i, m, Head(cls.events[m]), "direct")
       IN  /\ threads' = threads (+) SetToBag({w.thread})
           /\ host' = [host EXCEPT !.ret = w.ret]
    /\ UNCHANGED <<cls, apps, run, delivered>>

\* One invocation t moves on to status s.
Moved(t, s) ==
    (threads (-) SetToBag({t})) (+) SetToBag({[t EXCEPT !.status = s]})

\* The shutdown override of the App type, run on the App object a: the one
\* of a looping App sets the stop flag.
shutdown(a) == IF cls.loops THEN [a EXCEPT !.stop = TRUE] ELSE a

\* _shutdown_handler that also drops the listeners.
shutdown_handler_clears(a, r) ==
    [app |-> [shutdown(a) EXCEPT !.listeners = [e \in {} |-> <<>>]], run |-> r]

\* _shutdown_handler that also ends the run unit.
shutdown_handler_kills(a, r) ==
    [app |-> shutdown(a), run |-> [r EXCEPT !.st = "terminated"]]

\* The body of _shutdown_handler, run to its end on the App object a whose
\* run unit is r: self.shutdown(), nothing else.
shutdown_handler(a, r) == [app |-> shutdown(a), run |-> r]

\* The handler body of invocation t returns.  The body of an author's
\* handler is left open; that of _shutdown_handler has run the override.
HandlerReturn(t) ==
    /\ t.status = "running"
    /\ threads' = Moved(t, "returned")
    /\ IF t.handler = "_shutdown_handler"
       THEN LET after == shutdown_handler(apps[t.app], run[t.app])
            IN  /\ apps' = [apps EXCEPT ![t.app] = after.app]
                /\ run' = [run EXCEPT ![t.app] = after.run]
       ELSE UNCHANGED <<apps, run>>
    /\ UNCHANGED <<cls, host, delivered, directCalls>>

\* The handler body of invocation t raises: the exception unwinds the unit
\* the body runs in.  In a thread of its own it ends that thread; in the
\* host's unit it reaches the caller and ends the dispatch in progress.
\* The body of an author's handler and the override of an App that does not
\* loop are left open; the override of a looping App only sets the flag.
HandlerRaise(t) ==
    /\ t.status = "running"
    /\ ~(t.handler = "_shutdown_handler" /\ cls.loops)
    /\ threads' = Moved(t, "raised")
    /\ host' = IF t.unit = "host"
               THEN [host EXCEPT !.error = "HandlerFault", !.pc = "idle", !.todo = <<>>]
               ELSE host
    /\ UNCHANGED <<cls, apps, run, delivered, directCalls>>

Next ==
    \/ \E m \in UserMembers, event \in DeclaredNames,
          rest \in SeqsUpTo(DeclaredNames, MaxDeclared - 1) : Declare(m, event, rest)
    \/ \E ov \in SUBSET AbstractMethods, lp \in BOOLEAN : DefineType(ov, lp)
    \/ \E K \in SUBSET KeySet : Construct("app1", K)
    \/ Construct("app2", KeySet)
    \/ \E i \in Driven : Start(i)
    \/ \E i \in Driven : RunReturn(i)
    \/ \E i \in Driven : RunRaise(i)
    \/ \E i \in Driven, e \in EventNames : Deliver(i, e)
    \/ DispatchStep
    \/ \E i \in Driven, m \in AllMembers : DirectCall(i, m)
    \/ \E t \in BagToSet(threads) : HandlerReturn(t)
    \/ \E t \in BagToSet(threads) : HandlerRaise(t)

Spec == Init /\ [][Next]_vars

\* The run unit is scheduled: a call of run that can return does return.
FairRunSpec == Spec /\ WF_vars(RunReturn("app1"))

\* Every unit is scheduled: the run unit, the host's dispatch in progress and
\* the handler invocations.
FairSpec ==
    /\ Spec
    /\ WF_vars(RunReturn("app1"))
    /\ WF_vars(DispatchStep)
    /\ WF_vars(\E t \in BagToSet(threads) : HandlerReturn(t))

(* ------------------------------- the claims ---------------------------- *)

\* The number of invocations in the set S of invocation descriptions.
CountIn(S) == SumOver([t \in S |-> CopiesIn(t, threads)], S)

\* The invocations a dispatch of e to App i has started.
DispatchStarted(i, e) ==
    CountIn({t \in BagToSet(threads) :
                t.app = i /\ t.event = e /\ t.via = "dispatch"})

\* The __init__ of instance i has built its registry.
RegistryBuilt(i) == apps[i].status # "none" /\ apps[i].error # "TypeError"

\* The handlers bound to e: the methods whose binding declares e.
BoundTo(e) == {m \in AllMembers : IsCallable(m) /\ e \in Range(cls.events[m])}

\* C1: between dispatches, the invocations started by the deliveries of E to
\* an App are as many as the deliveries of E times the handlers bound to E
\* (none when no handler is bound to E).
C1_DispatchStartsOnePerBoundHandler ==
    \A i \in Instances, e \in EventNames :
        (apps[i].status = "ok" /\ host.pc = "idle")
            => DispatchStarted(i, e) = delivered[i][e] * Cardinality(BoundTo(e))

\* C2: between dispatches, the framework's shutdown handler (which calls the
\* shutdown override) has been invoked once for each delivery of the
\* reserved shutdown event.
C2_ShutdownOncePerDelivery ==
    \A i \in Instances :
        (apps[i].status = "ok" /\ host.pc = "idle")
            => CountIn({t \in BagToSet(threads) :
                          t.app = i /\ t.handler = "_shutdown_handler"
                          /\ t.via = "dispatch"})
               = delivered[i][ShutdownEvent]

\* C3: the registry of every constructed App has an entry for the reserved
\* shutdown event that holds the framework's shutdown handler.
C3_RegistryHasShutdownHandler ==
    \A i \in Instances :
        apps[i].status = "ok"
            => /\ ShutdownEvent \in DOMAIN apps[i].listeners
               /\ "_shutdown_handler" \in Range(apps[i].listeners[ShutdownEvent])

\* C4: no handler body ever runs in the unit that called the wrapper and the
\* caller is never held inside one; a call from dispatch or a direct call
\* adds exactly one invocation, in a unit of its own, with the arguments
\* passed; and a dispatch in progress can always start its next handler,
\* whatever the invocations already started are doing.
C4_WrapperStartsUnitAndReturns ==
    /\ [](/\ \A t \in BagToSet(threads) : t.unit = "thread"
          /\ ~HostBusy
          /\ host.pc = "dispatching" => ENABLED DispatchStep)
    /\ [][/\ DispatchStep =>
                threads' = threads (+) SetToBag({
                    [app |-> host.app, handler |-> Head(host.todo),
                     event |-> host.event, via |-> "dispatch",
                     unit |-> "thread", status |-> "running"]})
          /\ \A i \in Instances, m \in AllMembers :
                DirectCall(i, m) =>
                    threads' = threads (+) SetToBag({
                        [app |-> i, handler |-> m, event |-> Head(cls.events[m]),
                         via |-> "direct", unit |-> "thread",
                         status |-> "running"]})]_vars

\* C4 witness: the dispatch of an event with two handlers is over while the
\* invocation of the first is still running and that of the second returned.
C4_Witness ==
    /\ host.pc = "idle"
    /\ \E t, u \in BagToSet(threads) :
          /\ t.via = "dispatch" /\ u.via = "dispatch"
          /\ t.event = u.event /\ t.handler = "h1" /\ u.handler = "h2"
          /\ t.status = "running" /\ u.status = "returned"

\* C5: the caller of a wrapper never observes an error or a return value;
\* a step in which a handler raises changes nothing but that invocation
\* (not the host, not the run unit, not the other invocations); after it the
\* run unit and the other invocations can still go on.
C5_FaultStaysInItsUnit ==
    /\ [](/\ host.error = "none"
          /\ host.ret \in {"unset", "None"}
          /\ (\E t \in BagToSet(threads) : t.status = "raised")
                => /\ \A i \in Driven :
                        (run[i].st = "running" /\ CanReturn(i))
                            => ENABLED RunReturn(i)
                   /\ \A u \in BagToSet(threads) :
                        u.status = "running" => ENABLED HandlerReturn(u)
                   /\ host.pc = "dispatching" => ENABLED DispatchStep)
    /\ [][\A t \in BagToSet(threads) :
            HandlerRaise(t) =>
                /\ host' = host /\ run' = run /\ apps' = apps
                /\ threads' = Moved(t, "raised")]_vars

\* C5 witness: during a dispatch one invocation has raised, the host goes on
\* to start the next handler, and the run unit is in setup or execute.
C5_Witness ==
    /\ host.pc = "dispatching"
    /\ host.error = "none"
    /\ run["app1"].st = "running"
    /\ \E t \in BagToSet(threads) :
          t.status = "raised" /\ t.via = "dispatch" /\ t.event = host.event

\* C6: whenever __init__ ran, it failed naming a missing key if one of the
\* three keys was missing, and otherwise succeeded with each sink bound.
C6_BuffersRequired ==
    \A i \in Instances :
        RegistryBuilt(i) =>
            LET given == DOMAIN apps[i].kwargs
                keys == {"add_to_msg_in_buffer", "add_to_msg_out_buffer",
                         "add_to_app_buffer"}
            IN  IF keys \subseteq given
                THEN /\ apps[i].status = "ok"
                     /\ apps[i].error = "none"
                     /\ DOMAIN apps[i].sinks = keys
                     /\ \A k \in keys : apps[i].sinks[k] = apps[i].kwargs[k]
                ELSE /\ apps[i].status = "failed"
                     /\ apps[i].error \in keys \ given

\* C6 witness: one construction failed for the missing inter-app sink alone
\* and another, with all three sinks, succeeded.
C6_Witness ==
    /\ apps["app1"].status = "failed"
    /\ apps["app1"].error = "add_to_app_buffer"
    /\ DOMAIN apps["app1"].kwargs = {"add_to_msg_in_buffer", "add_to_msg_out_buffer"}
    /\ apps["app2"].status = "ok"
    /\ DOMAIN apps["app2"].sinks = KeySet

\* C7: the construction of a type that leaves out setup, execute or shutdown
\* always fails and leaves no registry and no bound sink, whatever is
\* supplied; the construction of a type with all three never fails that way.
C7_AbstractMethodsRequired ==
    \A i \in Instances :
        apps[i].status # "none" =>
            IF cls.overrides # {"setup", "execute", "shutdown"}
            THEN /\ apps[i].status = "failed"
                 /\ apps[i].error = "TypeError"
                 /\ DOMAIN apps[i].listeners = {}
                 /\ DOMAIN apps[i].sinks = {}
            ELSE apps[i].error # "TypeError"

\* C7 witness: a type without shutdown only was refused with all three
\* sinks supplied.
C7_Witness ==
    /\ cls.overrides = {"setup", "execute"}
    /\ apps["app1"].status = "failed"
    /\ apps["app1"].error = "TypeError"
    /\ DOMAIN apps["app1"].kwargs = KeySet

C9_SameRegistryPerType ==
    \A i, j \in Instances :
        (RegistryBuilt(i) /\ RegistryBuilt(j)) =>
            /\ DOMAIN apps[i].listeners = DOMAIN apps[j].listeners
            /\ \A e \in DOMAIN apps[i].listeners :
                  Len(apps[i].listeners[e]) = Len(apps[j].listeners[e])

\* C9 witness: both instances exist, the first one has run to its end and
\* has had handlers started by dispatch, and the registries are not empty.
C9_Witness ==
    /\ apps["app1"].status = "ok" /\ apps["app2"].status = "ok"
    /\ run["app1"].st = "terminated"
    /\ DispatchStarted("app1", "A") > 0
    /\ Len(Lookup("app2", "A")) = 2

\* C10: in the run unit the first call is setup, execute is called only
\* after setup has returned, and each is called at most once.
C10_SetupBeforeExecute ==
    \A i \in Instances :
        LET L == run[i].log
        IN  /\ Len(L) > 0 => L[1] = <<"setup", "call">>
            /\ \A n \in 1..Len(L) :
                  L[n] = <<"execute", "call">>
                      => \E k \in 1..(n - 1) : L[k] = <<"setup", "return">>
            /\ Cardinality({n \in 1..Len(L) : L[n] = <<"setup", "call">>}) <= 1
            /\ Cardinality({n \in 1..Len(L) : L[n] = <<"execute", "call">>}) <= 1

\* C10 witness: execute has been called, and has returned.
C10_Witness ==
    run["app1"].log = << <<"setup", "call">>, <<"setup", "return">>,
                         <<"execute", "call">>, <<"execute", "return">> >>

\* The shutdown override of App i has been invoked: an invocation of
\* _shutdown_handler, whose body is the call of the override, was started.
ShutdownInvoked(i) ==
    \E t \in BagToSet(threads) : t.app = i /\ t.handler = "_shutdown_handler"

\* The lifecycle state of App i, read off its run unit: Created until it is
\* started, SettingUp and Executing while run is in setup and in execute,
\* ShuttingDown while it is in execute with the shutdown override invoked,
\* Terminated once run has ended.
Lifecycle(i) ==
    IF run[i].st = "created" THEN "Created"
    ELSE IF run[i].st = "terminated" THEN "Terminated"
    ELSE IF RunBody[run[i].ip] = "setup" THEN "SettingUp"
    ELSE IF ShutdownInvoked(i) THEN "ShuttingDown"
    ELSE "Executing"

\* The place of a lifecycle state in the order the states are gone through.
Rank(s) ==
    CASE s = "Created" -> 0
      [] s = "SettingUp" -> 1
      [] s = "Executing" -> 2
      [] s = "ShuttingDown" -> 3
      [] s = "Terminated" -> 4

\* How often x occurs in the sequence q.
Occurrences(q, x) == Cardinality({n \in 1..Len(q) : q[n] = x})

\* The invocations of handler h of App i that are running.
RunningCount(i, h) ==
    CountIn({t \in BagToSet(threads) :
                t.app = i /\ t.handler = h /\ t.status = "running"})

C12_LifecycleForwardOnly ==
    [][\A i \in Instances : Rank(Lifecycle(i))' >= Rank(Lifecycle(i))]_vars

\* C12 witness: the App is ShuttingDown, the reserved shutdown event having
\* been delivered as well.
C12_Witness ==
    /\ Lifecycle("app1") = "ShuttingDown"
    /\ delivered["app1"][ShutdownEvent] > 0

\* C13: once the registry of an instance is built no step changes it.
C13_RegistryFrozen ==
    [][\A i \in Instances :
          RegistryBuilt(i) => apps'[i].listeners = apps[i].listeners]_vars

\* C13 witness: the App has run to its end, the reserved shutdown event was
\* delivered, the framework handler has run and the registry is still there.
C13_Witness ==
    /\ run["app1"].st = "terminated"
    /\ delivered["app1"][ShutdownEvent] > 0
    /\ \E t \in BagToSet(threads) :
          t.handler = "_shutdown_handler" /\ t.status = "returned"
    /\ Len(Lookup("app1", "A")) > 0

\* C14: a construction that finds a buffer missing names the first one
\* missing in the order inbound, outbound, inter-app, has bound exactly the
\* ones before it and none after it.
C14_FirstMissingBufferNamed ==
    \A i \in Instances :
        RegistryBuilt(i) =>
            LET order == <<"add_to_msg_in_buffer", "add_to_msg_out_buffer",
                           "add_to_app_buffer">>
                absent == {n \in 1..3 : order[n] \notin DOMAIN apps[i].kwargs}
            IN  absent # {} =>
                    LET first == CHOOSE n \in absent : \A k \in absent : n <= k
                    IN  /\ apps[i].status = "failed"
                        /\ apps[i].error = order[first]
                        /\ DOMAIN apps[i].sinks = {order[n] : n \in 1..(first - 1)}
                        /\ \A k \in DOMAIN apps[i].sinks :
                              apps[i].sinks[k] = apps[i].kwargs[k]

\* C14 witness: only the inbound sink was supplied; the error names the
\* outbound one and the inbound one is bound.
C14_Witness ==
    /\ DOMAIN apps["app1"].kwargs = {"add_to_msg_in_buffer"}
    /\ apps["app1"].error = "add_to_msg_out_buffer"
    /\ DOMAIN apps["app1"].sinks = {"add_to_msg_in_buffer"}

\* C15: for a looping App, once it is started and the reserved shutdown
\* event has been delivered, the run unit eventually ends.
C15_ShutdownDeliveryTerminates ==
    \A i \in Driven :
        (cls.loops /\ run[i].st = "running" /\ delivered[i][ShutdownEvent] > 0)
            ~> (run[i].st = "terminated")

\* C16: a started App whose setup and execute return (execute of a looping
\* App returns once the stop flag is set) eventually is Terminated, with the
\* run unit scheduled fairly and nothing assumed about the handlers.
C16_RunEventuallyTerminates ==
    \A i \in Driven :
        (run[i].st = "running" /\ (~cls.loops \/ apps[i].stop))
            ~> (Lifecycle(i) = "Terminated")

\* C16 witness: the App is Terminated, no shutdown event was ever delivered
\* and an invocation started by dispatch is still running.
C16_Witness ==
    /\ Lifecycle("app1") = "Terminated"
    /\ delivered["app1"][ShutdownEvent] = 0
    /\ ~ShutdownInvoked("app1")
    /\ \E t \in BagToSet(threads) : t.via = "dispatch" /\ t.status = "running"

C18_NoMutualExclusion ==
    /\ [](/\ \A t \in BagToSet(threads) : t.status # "waiting"
          /\ \A i \in Instances, e \in EventNames :
                (apps[i].status = "ok" /\ host.pc = "idle")
                    => DispatchStarted(i, e) = delivered[i][e] * Len(Lookup(i, e)))
    /\ [][\A i \in Instances, h \in AllMembers :
            (/\ host.pc = "dispatching" /\ host.app = i
             /\ host.todo # <<>> /\ Head(host.todo) = h
             /\ DispatchStep)
                => RunningCount(i, h)' = RunningCount(i, h) + 1]_vars

\* C18 witness: an event was delivered twice and two invocations of the one
\* handler bound to it are running at once.
C18_Witness ==
    /\ delivered["app1"]["A"] = 2
    /\ Lookup("app1", "A") = <<"h1">>
    /\ RunningCount("app1", "h1") = 2

\* C19: a registered handler occurs under a name as often as the name occurs
\* in the sequence of names the handler declares.
C19_ListedOncePerDeclaration ==
    \A i \in Instances :
        RegistryBuilt(i) =>
            \A m \in AllMembers, e \in EventNames :
                (m # "_shutdown_handler" /\ m # "data")
                    => Occurrences(Lookup(i, e), m) = Occurrences(cls.events[m], e)

\* C19 witness: h1 declares "A" twice, is listed twice under it, and one
\* dispatch of "A" has started two invocations of h1.
C19_Witness ==
    /\ cls.events["h1"] = <<"A", "A">>
    /\ Lookup("app1", "A") = <<"h1", "h1">>
    /\ delivered["app1"]["A"] = 1
    /\ host.pc = "idle"
    /\ DispatchStarted("app1", "A") = 2

====
